---- MODULE Spec2Model ----
(***************************************************************************)
(* Model of the Prusa camera timelapse service (src/camera_service.py) and *)
(* of the MJPEG livestream framer (src/camera_stream.py).                  *)
(*                                                                         *)
(* CameraService has no lock: the GPIO callback thread, the time-based     *)
(* capture thread and the main thread (stop) share running, print_active,  *)
(* capture_counter, current_session_dir and last_upload_time.  Every read  *)
(* or write of a shared attribute is a step of its own.                    *)
(***************************************************************************)
EXTENDS Integers, Sequences, FiniteSets, TLC

(* ---------------------------- bounds ----------------------------------- *)
MaxTriggers ==
    1
MaxWakes ==
    1
MaxTicks ==
    1
MaxNoise ==
    2
MaxCompiles ==
    1
MaxLog ==
    2
MaxChecks ==
    1

(* ------------------------ program constants ---------------------------- *)
UploadInterval ==
    10
MinFrameSize ==
    100

(* time.time() is seconds since 1970: at start-up it is already at least   *)
(* one upload interval past the initial last_upload_time of 0.             *)
StartTime ==
    UploadInterval

(* the clock is advanced in steps of these sizes                           *)
TickSteps ==
    {2, UploadInterval}

Workers ==
    {"gpio", "time"}

(* the clients of the stream server *)
Viewers ==
    {1, 2}

NoViewer ==
    0

NoDir ==
    0

VARIABLES
    cfg,                  \* self.config (immutable snapshot)
    gpio_ok,              \* _setup_gpio built the Button (False: it raised
                          \* and self.trigger_button stayed None)
    compiles,             \* runs of the external compile command
    running,              \* self.running
    print_active,         \* self.print_active
    capture_counter,      \* self.capture_counter
    current_session_dir,  \* self.current_session_dir (NoDir = None)
    last_upload_time,     \* self.last_upload_time
    button_open,          \* self.trigger_button not yet closed
    now,                  \* wall clock in seconds
    ticks,                \* clock advances so far
    meta,                 \* metadata.json of every session directory
                          \* (end_time: key present; total_images, NoMeta = absent)
    pc,                   \* position of each worker thread
    ret,                  \* where _start_print_session returns to
    tmp,                  \* counter value loaded by capture_counter += 1
    cur,                  \* current_time in _upload_to_prusa_connect
    mpc,                  \* position of the main thread
    stops,                \* calls of stop() begun
    unwinding,            \* start() is in its finally clause
    checks,               \* resource checks of the main loop made
    triggers,             \* GPIO callbacks delivered
    wakes,                \* iterations of the time loop begun
    seqs,                 \* history: filename numbers since the last reset
    shots,                \* history: image files written since the last reset
    calls,                \* history: returned calls of _upload_to_prusa_connect
    puts,                 \* history: HTTP transfers made
    oks,                  \* history: uploads confirmed with HTTP 200
    prev,                 \* history: the call that returned last
    stdout,               \* framer: bytes not yet read from the camera
    data,                 \* framer: result of stdout.read(2)
    frame,                \* framer: frame buffer
    wfile,                \* framer: frames written to the viewer (history,
                          \* the first MaxLog of a connection)
    fpc,                  \* framer: position in stream_video
    in_noise,             \* framer history: noise put before the frames
    in_frames,            \* framer history: JPEG buffers put in the stream
    cam,                  \* stream: the handler's camera process
    leaked,               \* stream: camera processes no handler holds any more
    srv,                  \* stream: StreamingServer.start has been called
    handling,             \* stream: the viewer whose request is being handled
    conns,                \* stream: connections waiting to be accepted
    peer,                 \* stream: each viewer's end of its connection
    req,                  \* stream: the path each viewer asked for
    resp,                 \* stream: the response begun for each viewer
    out                   \* stream: the parts written into each stream response
                          \* (history, the first MaxLog chunks)

svars ==
    <<cfg, gpio_ok, compiles, running, print_active, capture_counter, current_session_dir,
      last_upload_time, button_open, now, ticks, meta, pc, ret, tmp, cur,
      mpc, stops, unwinding, checks, triggers, wakes, seqs, shots, calls, puts, oks, prev>>

(* the server, its connections and the camera processes *)
srvv ==
    <<cam, leaked, srv, handling, conns, peer, req, resp, out>>

fvars ==
    <<stdout, data, frame, wfile, fpc, in_noise, in_frames, srvv>>

vars ==
    <<svars, fvars>>

(* ------------------------ variable groups ------------------------------ *)
envv ==
    <<cfg, gpio_ok, compiles>>
sharedv ==
    <<running, print_active, capture_counter, current_session_dir,
      last_upload_time, button_open>>
clockv ==
    <<now, ticks>>
localv ==
    <<ret, tmp, cur>>
mainv ==
    <<mpc, stops>>
loopv ==
    <<unwinding, checks>>
countv ==
    <<triggers, wakes>>
histv ==
    <<seqs, shots, calls, puts, oks, prev>>

(* the settings the coordination reads; only_during_print is read only    *)
(* with time_mode enabled and the token only with prusa_connect enabled,   *)
(* so a setting that is never read is fixed                                *)
Configs ==
    {c \in [layer_enabled : BOOLEAN, time_enabled : BOOLEAN,
            only_during_print : BOOLEAN, upload_enabled : BOOLEAN,
            token_ok : BOOLEAN] :
        /\ (~c.time_enabled => c.only_during_print)
        /\ (~c.upload_enabled => c.token_ok)}

NoMeta ==
    -1

(* the settings when the configuration file names none of them *)
DefaultConfig ==
    [layer_enabled |-> TRUE, time_enabled |-> TRUE,
     only_during_print |-> TRUE, upload_enabled |-> TRUE,
     token_ok |-> FALSE]

(* interval capture alone: layer_mode.enabled and prusa_connect.enabled    *)
(* false, time_mode.only_during_print false                                *)
TimerConfig ==
    [layer_enabled |-> FALSE, time_enabled |-> TRUE,
     only_during_print |-> FALSE, upload_enabled |-> FALSE,
     token_ok |-> TRUE]

(* one returned call: the time of its interval check and how it ended      *)
UploadEntry(at, r) ==
    [at |-> at, res |-> r]

(* the process is alive: daemon threads die when main() returns            *)
Alive ==
    mpc # "m_exit"

(* a plausible slip: what a capture hands back ends the time loop          *)
AfterCaptureUnwound(t) ==
    IF t = "gpio" THEN "idle" ELSE "t_done"

(* where a worker continues after _capture_image returns: the GPIO         *)
(* callback ends, the time loop sleeps and tests self.running again        *)
AfterCapture(t) ==
    IF t = "gpio" THEN "idle" ELSE "t_loop"

(* CameraService.__init__; watcher: _setup_gpio came through.  When        *)
(* Button(...) raises, the except clause logs and self.trigger_button is   *)
(* the None it was set to before                                           *)
Constructed(watcher) ==
    /\ gpio_ok = watcher
    /\ compiles = 0
    /\ running = FALSE
    /\ print_active = FALSE
    /\ capture_counter = 0
    /\ current_session_dir = NoDir
    /\ last_upload_time = 0
    /\ button_open = watcher
    /\ now = StartTime
    /\ ticks = 0
    /\ meta = << >>
    /\ pc = [t \in Workers |-> IF t = "gpio" THEN "idle" ELSE "t_off"]
    /\ ret = [t \in Workers |-> "none"]
    /\ tmp = [t \in Workers |-> 0]
    /\ cur = [t \in Workers |-> 0]
    /\ mpc = "m_new"
    /\ stops = 0
    /\ unwinding = FALSE
    /\ checks = 0
    /\ triggers = 0
    /\ wakes = 0
    /\ seqs = << >>
    /\ shots = 0
    /\ calls = 0
    /\ puts = 0
    /\ oks = 0
    /\ prev = UploadEntry(0, "none")

(* the service as it is constructed on a board whose GPIO pin is there *)
InitService ==
    Constructed(TRUE)

(* no connection has been made to the stream server *)
InitNoViewers ==
    /\ cam = "none"
    /\ leaked = 0
    /\ handling = NoViewer
    /\ conns = << >>
    /\ peer = [v \in Viewers |-> "none"]
    /\ req = [v \in Viewers |-> "none"]
    /\ resp = [v \in Viewers |-> "none"]
    /\ out = [v \in Viewers |-> << >>]

InitFramerIdle ==
    /\ stdout = << >>
    /\ data = << >>
    /\ frame = << >>
    /\ wfile = << >>
    /\ fpc = "idle"
    /\ in_noise = << >>
    /\ in_frames = << >>
    /\ srv = "new"
    /\ InitNoViewers

Init ==
    /\ cfg \in Configs
    /\ InitService
    /\ InitFramerIdle

(* ------------------------------ clock ---------------------------------- *)
(* the coordination samples the clock when it names a session directory    *)
(* and when it tests the upload interval; the clock advances between the   *)
(* other steps too, which no step can tell apart from advancing right      *)
(* before the next sample                                                  *)
ClockSampled ==
    \E t \in Workers : pc[t] \in {"s_dir", "u_check"}

Tick ==
    /\ Alive
    /\ ClockSampled
    /\ ticks < MaxTicks
    /\ \E d \in TickSteps : now' = now + d
    /\ ticks' = ticks + 1
    /\ UNCHANGED <<envv, loopv, sharedv, meta, pc, localv, mainv, countv, histv, fvars>>

(* _capture_image returns to its caller: the worker's locals are dead      *)
Return(t) ==
    /\ pc' = [pc EXCEPT ![t] = AfterCapture(t)]
    /\ ret' = [ret EXCEPT ![t] = "none"]
    /\ tmp' = [tmp EXCEPT ![t] = 0]
    /\ cur' = [cur EXCEPT ![t] = 0]

(* ------------------- _on_gpio_trigger (gpiozero thread) ---------------- *)
GpioTrigger ==
    /\ Alive
    /\ button_open
    /\ triggers < MaxTriggers
    /\ pc["gpio"] = "idle"
    /\ triggers' = triggers + 1
    /\ pc' = [pc EXCEPT !["gpio"] =
                 IF cfg.layer_enabled THEN "g_check" ELSE "idle"]
    /\ UNCHANGED <<envv, loopv, sharedv, clockv, meta, localv, mainv, wakes, histv, fvars>>

(* if not self.print_active: self._start_print_session(); then the         *)
(* capture delay and self._capture_image("layer")                          *)
GpioCheck ==
    /\ Alive
    /\ pc["gpio"] = "g_check"
    /\ IF ~print_active
          THEN /\ pc' = [pc EXCEPT !["gpio"] = "s_active"]
               /\ ret' = [ret EXCEPT !["gpio"] = "c_check"]
          ELSE /\ pc' = [pc EXCEPT !["gpio"] = "c_check"]
               /\ ret' = ret
    /\ UNCHANGED <<envv, loopv, sharedv, clockv, meta, tmp, cur, mainv, countv,
                   histv, fvars>>

(* ------------------------ _start_print_session ------------------------- *)
(* self.print_active = True; self.capture_counter = 0 *)
StartActive(t) ==
    /\ Alive
    /\ pc[t] = "s_active"
    /\ print_active' = TRUE
    /\ capture_counter' = 0
    /\ seqs' = << >>
    /\ shots' = 0
    /\ pc' = [pc EXCEPT ![t] = "s_dir"]
    /\ UNCHANGED <<envv, loopv, running, current_session_dir, last_upload_time,
                   button_open, clockv, meta, localv, mainv, countv, calls,
                   puts, oks, prev, fvars>>

(* the directory is named after the wall clock, to the second              *)
StartDir(t) ==
    /\ Alive
    /\ pc[t] = "s_dir"
    /\ current_session_dir' = now
    /\ pc' = [pc EXCEPT ![t] = "s_meta"]
    /\ UNCHANGED <<envv, loopv, running, print_active, capture_counter,
                   last_upload_time, button_open, clockv, meta, localv,
                   mainv, countv, histv, fvars>>

(* json.dump({start_time, config_snapshot}) into the directory that        *)
(* self.current_session_dir names now                                      *)
StartMeta(t) ==
    /\ Alive
    /\ pc[t] = "s_meta"
    /\ meta' = (current_session_dir :>
                  [end_time |-> FALSE, total_images |-> NoMeta]) @@ meta
    /\ pc' = [pc EXCEPT ![t] = ret[t]]
    /\ UNCHANGED <<envv, loopv, sharedv, clockv, localv, mainv, countv, histv, fvars>>

(* ---------------------------- _capture_image --------------------------- *)
CaptureCheck(t) ==
    /\ Alive
    /\ pc[t] = "c_check"
    /\ IF current_session_dir = NoDir
          THEN /\ pc' = [pc EXCEPT ![t] = "s_active"]
               /\ ret' = [ret EXCEPT ![t] = "c_read"]
          ELSE /\ pc' = [pc EXCEPT ![t] = "c_read"]
               /\ ret' = ret
    /\ UNCHANGED <<envv, loopv, sharedv, clockv, meta, tmp, cur, mainv, countv,
                   histv, fvars>>

(* self.capture_counter += 1 : load *)
CaptureRead(t) ==
    /\ Alive
    /\ pc[t] = "c_read"
    /\ tmp' = [tmp EXCEPT ![t] = capture_counter]
    /\ pc' = [pc EXCEPT ![t] = "c_write"]
    /\ UNCHANGED <<envv, loopv, sharedv, clockv, meta, ret, cur, mainv, countv,
                   histv, fvars>>

(* self.capture_counter += 1 : store *)
CaptureWrite(t) ==
    /\ Alive
    /\ pc[t] = "c_write"
    /\ capture_counter' = tmp[t] + 1
    /\ pc' = [pc EXCEPT ![t] = "c_name"]
    /\ UNCHANGED <<envv, loopv, running, print_active, current_session_dir,
                   last_upload_time, button_open, clockv, meta, localv,
                   mainv, countv, histv, fvars>>

(* filename = pattern.format(counter=self.capture_counter, ...) *)
CaptureName(t) ==
    /\ Alive
    /\ pc[t] = "c_name"
    /\ seqs' = Append(seqs, capture_counter)
    /\ pc' = [pc EXCEPT ![t] = "c_run"]
    /\ UNCHANGED <<envv, loopv, sharedv, clockv, meta, localv, mainv, countv, shots,
                   calls, puts, oks, prev, fvars>>

(* subprocess.run(cmd, check=True, timeout=...) returns: the image file is *)
(* written; without upload the function returns output_path                *)
CaptureRunOk(t) ==
    /\ Alive
    /\ pc[t] = "c_run"
    /\ shots' = shots + 1
    /\ IF cfg.upload_enabled
          THEN /\ pc' = [pc EXCEPT ![t] = "u_check"]
               /\ UNCHANGED localv
          ELSE Return(t)
    /\ UNCHANGED <<envv, loopv, sharedv, clockv, meta, mainv, countv, seqs, calls,
                   puts, oks, prev, fvars>>

(* subprocess.run raises TimeoutExpired or CalledProcessError: the except  *)
(* clauses log and return None                                             *)
CaptureRunFail(t) ==
    /\ Alive
    /\ pc[t] = "c_run"
    /\ Return(t)
    /\ UNCHANGED <<envv, loopv, sharedv, clockv, meta, mainv, countv, histv, fvars>>

(* ----------------------- _upload_to_prusa_connect ---------------------- *)
(* a plausible slip: the comparison of the interval check turned around   *)
ThrottledTurned(current_time, last) ==
    current_time - last > UploadInterval

(* if current_time - self.last_upload_time < min_interval *)
Throttled(current_time, last) ==
    current_time - last < UploadInterval

(* the interval check: a throttled call returns False *)
UploadSkip(t) ==
    /\ Alive
    /\ pc[t] = "u_check"
    /\ Throttled(now, last_upload_time)
    /\ prev' = UploadEntry(now, "skip")
    /\ calls' = calls + 1
    /\ Return(t)
    /\ UNCHANGED <<envv, loopv, sharedv, clockv, meta, mainv, countv, seqs, shots,
                   puts, oks, fvars>>

(* the interval has passed: the token check *)
UploadCheck(t) ==
    /\ Alive
    /\ pc[t] = "u_check"
    /\ ~Throttled(now, last_upload_time)
    /\ IF ~cfg.token_ok
          THEN /\ prev' = UploadEntry(now, "notoken")
               /\ calls' = calls + 1
               /\ Return(t)
          ELSE /\ cur' = [cur EXCEPT ![t] = now]
               /\ pc' = [pc EXCEPT ![t] = "u_put"]
               /\ UNCHANGED <<ret, tmp, prev, calls>>
    /\ UNCHANGED <<envv, loopv, sharedv, clockv, meta, mainv, countv, seqs, shots,
                   puts, oks, fvars>>

(* a plausible slip: the window is advanced whatever the response was      *)
UploadDoneAlways(t, r) ==
    /\ last_upload_time' = cur[t]
    /\ oks' = IF r = "200" THEN oks + 1 ELSE oks
    /\ puts' = puts + 1
    /\ calls' = calls + 1
    /\ prev' = UploadEntry(cur[t], r)

(* what _upload_to_prusa_connect does with the outcome r of requests.put:  *)
(* only a 200 response moves last_upload_time                              *)
UploadDone(t, r) ==
    /\ last_upload_time' =
          IF r = "200" THEN cur[t] ELSE last_upload_time
    /\ oks' = IF r = "200" THEN oks + 1 ELSE oks
    /\ puts' = puts + 1
    /\ calls' = calls + 1
    /\ prev' = UploadEntry(cur[t], r)

(* requests.put(...) returns a response or raises; the function returns *)
UploadPut(t) ==
    /\ Alive
    /\ pc[t] = "u_put"
    /\ \E r \in {"200", "non200", "error"} : UploadDone(t, r)
    /\ Return(t)
    /\ UNCHANGED <<envv, loopv, running, print_active, capture_counter,
                   current_session_dir, button_open, clockv, meta, mainv,
                   countv, seqs, shots, fvars>>

(* ------------------------ _time_based_capture_loop --------------------- *)
TimeLoop ==
    /\ Alive
    /\ pc["time"] = "t_loop"
    /\ IF ~running
          THEN /\ pc' = [pc EXCEPT !["time"] = "t_done"]
               /\ wakes' = wakes
          ELSE /\ wakes < MaxWakes
               /\ wakes' = wakes + 1
               /\ pc' = [pc EXCEPT !["time"] =
                            IF cfg.time_enabled THEN "t_gate" ELSE "t_loop"]
    /\ UNCHANGED <<envv, loopv, sharedv, clockv, meta, localv, mainv, triggers,
                   histv, fvars>>

(* a plausible slip: the session gate left out *)
ShouldCaptureAlways ==
    TRUE

(* should_capture = True; if only_during_print and not self.print_active:  *)
(* should_capture = False                                                  *)
ShouldCapture ==
    ~(cfg.only_during_print /\ ~print_active)

(* if should_capture: self._capture_image("time"); a suppressed iteration  *)
(* sleeps and loops                                                        *)
TimeGate ==
    /\ Alive
    /\ pc["time"] = "t_gate"
    /\ pc' = [pc EXCEPT !["time"] =
                 IF ShouldCapture THEN "c_check" ELSE "t_loop"]
    /\ UNCHANGED <<envv, loopv, sharedv, clockv, meta, localv, mainv, countv,
                   histv, fvars>>

(* --------------------------- start (main thread) ----------------------- *)
Start ==
    /\ mpc = "m_new"
    /\ running' = TRUE
    /\ pc' = [pc EXCEPT !["time"] =
                 IF cfg.time_enabled THEN "t_loop" ELSE "t_off"]
    /\ mpc' = "m_loop"
    /\ UNCHANGED <<envv, loopv, print_active, capture_counter, current_session_dir,
                   last_upload_time, button_open, clockv, meta, localv,
                   stops, countv, histv, fvars>>

(* SIGINT/SIGTERM: signal_handler calls service.stop(); self.running = False *)
Signal ==
    /\ mpc = "m_loop"
    /\ running' = FALSE
    /\ mpc' = "st_chk"
    /\ stops' = 1
    /\ UNCHANGED <<envv, loopv, print_active, capture_counter, current_session_dir,
                   last_upload_time, button_open, clockv, meta, pc, localv,
                   countv, histv, fvars>>

(* ------------------------------- stop ---------------------------------- *)
(* if self.print_active: self._end_print_session(), which tests the flag   *)
(* again; only this thread ever clears it                                  *)
StopCheck ==
    /\ mpc = "st_chk"
    /\ mpc' = IF print_active THEN "e_meta" ELSE "st_close"
    /\ UNCHANGED <<envv, loopv, sharedv, clockv, meta, pc, localv, stops, countv,
                   histv, fvars>>

(* ------------------------- _end_print_session -------------------------- *)
(* read metadata.json, add end_time and total_images, write it back (the   *)
(* value of end_time, a time stamp, is never read again); a                *)
(* missing file raises and is only logged                                  *)
EndMeta ==
    /\ mpc = "e_meta"
    /\ meta' = IF current_session_dir # NoDir
                  /\ current_session_dir \in DOMAIN meta
                  THEN [meta EXCEPT ![current_session_dir] =
                           [@ EXCEPT !.end_time = TRUE,
                                     !.total_images = capture_counter]]
                  ELSE meta
    /\ mpc' = "e_flag"
    /\ UNCHANGED <<envv, loopv, sharedv, clockv, pc, localv, stops, countv,
                   histv, fvars>>

EndFlag ==
    /\ mpc = "e_flag"
    /\ print_active' = FALSE
    /\ mpc' = "st_close"
    /\ UNCHANGED <<envv, loopv, running, capture_counter, current_session_dir,
                   last_upload_time, button_open, clockv, meta, pc, localv,
                   stops, countv, histv, fvars>>

(* the time thread was never started or has left its loop *)
ThreadEnded ==
    pc["time"] \in {"t_off", "t_done"}

(* a plausible slip: join() without a timeout *)
JoinForever ==
    ThreadEnded

(* self.time_capture_thread.join(timeout=5) comes back when the thread has *)
(* ended or, the thread still running, when the timeout has run out        *)
JoinReturns ==
    \E timed_out \in BOOLEAN : ThreadEnded \/ timed_out

(* the join, then self.trigger_button.close() if there is a button.  After *)
(* the stop() of the signal handler its sys.exit(0) unwinds start(), whose *)
(* finally clause calls stop() again (self.running = False once more);     *)
(* after the stop() of the finally clause main() is left                   *)
StopClose ==
    /\ mpc = "st_close"
    /\ JoinReturns
    /\ button_open' = FALSE
    /\ IF ~unwinding
          THEN /\ unwinding' = TRUE
               /\ stops' = stops + 1
               /\ mpc' = "st_chk"
          ELSE /\ unwinding' = unwinding
               /\ stops' = stops
               /\ mpc' = "m_exit"
    /\ UNCHANGED <<envv, checks, running, print_active, capture_counter,
                   current_session_dir, last_upload_time, clockv, meta, pc,
                   localv, countv, histv, fvars>>

(* ---------------------- the main loop of start ------------------------- *)
(* what a reading of psutil comes to: below 90 percent, above it (a        *)
(* warning is logged), or the call raises                                  *)
Readings ==
    {"low", "high", "raised"}

(* while self.running: time.sleep(1), then psutil.virtual_memory() and     *)
(* psutil.disk_usage('/').  The try has one except clause, for             *)
(* KeyboardInterrupt: any other exception runs the finally clause, whose   *)
(* stop() sets self.running = False, and leaves start()                    *)
ResourceCheck ==
    /\ mpc = "m_loop"
    /\ running
    /\ checks < MaxChecks
    /\ checks' = checks + 1
    /\ \E memory \in Readings, disk \in Readings :
          IF memory = "raised" \/ disk = "raised"
             THEN /\ unwinding' = TRUE
                  /\ stops' = stops + 1
                  /\ running' = FALSE
                  /\ mpc' = "st_chk"
             ELSE UNCHANGED <<unwinding, stops, running, mpc>>
    /\ UNCHANGED <<envv, print_active, capture_counter, current_session_dir,
                   last_upload_time, button_open, clockv, meta, pc, localv,
                   countv, histv, fvars>>

(* ---------------------------- specification ---------------------------- *)
(* the steps of a service that makes no upload and whose GPIO callback    *)
(* returns at the layer_mode test                                          *)
NextTimer ==
    \/ Tick
    \/ GpioTrigger
    \/ \E t \in Workers : StartActive(t)
    \/ \E t \in Workers : StartDir(t)
    \/ \E t \in Workers : StartMeta(t)
    \/ \E t \in Workers : CaptureCheck(t)
    \/ \E t \in Workers : CaptureRead(t)
    \/ \E t \in Workers : CaptureWrite(t)
    \/ \E t \in Workers : CaptureName(t)
    \/ \E t \in Workers : CaptureRunOk(t)
    \/ \E t \in Workers : CaptureRunFail(t)
    \/ TimeLoop
    \/ TimeGate
    \/ Start
    \/ Signal
    \/ StopCheck
    \/ EndMeta
    \/ EndFlag
    \/ StopClose

(* the steps of a service that makes no upload *)
NextLocal ==
    \/ NextTimer
    \/ GpioCheck

Next ==
    \/ NextLocal
    \/ \E t \in Workers : UploadSkip(t)
    \/ \E t \in Workers : UploadCheck(t)
    \/ \E t \in Workers : UploadPut(t)

Spec ==
    Init /\ [][Next]_vars

(* the service with interval capture alone; the                            *)
(* main thread is scheduled: once stop() has begun, each of its steps  *)
(* is taken when it can be.  Nothing is assumed of the worker threads,     *)
(* which sleep for the capture interval or wait for the camera tool for    *)
(* longer than the join waits.                                             *)
InitStop ==
    /\ cfg = TimerConfig
    /\ InitService
    /\ InitFramerIdle

(* the interval-only service with the resource check of its main loop *)
NextLoop ==
    \/ NextTimer
    \/ ResourceCheck

SpecLoop ==
    InitStop /\ [][NextLoop]_vars

(* the service without uploads, constructed with or without a GPIO pin    *)
(* that can be opened                                                      *)
InitSetup ==
    /\ cfg \in {c \in Configs : ~c.upload_enabled}
    /\ \E watcher \in BOOLEAN : Constructed(watcher)
    /\ InitFramerIdle

SpecSetup ==
    InitSetup /\ [][NextLocal]_vars

SpecStop ==
    /\ InitStop
    /\ [][NextTimer]_vars
    /\ WF_vars(StopCheck)
    /\ WF_vars(EndMeta)
    /\ WF_vars(EndFlag)
    /\ WF_vars(StopClose)

(* ------------------- the external compile command ---------------------- *)
(* `camera_service.py compile`: main() builds a CameraService of its own,  *)
(* in a process of its own, and calls trigger_compile_video() on it.  That *)
(* instance comes out of __init__ with print_active False and              *)
(* current_session_dir None, so its _end_print_session returns at the      *)
(* first test and trigger_compile_video returns at the directory test.     *)
(* The attributes of the running service live in another process.          *)
Compile ==
    /\ compiles < MaxCompiles
    /\ compiles' = compiles + 1
    /\ LET own_print_active == FALSE
           own_capture_counter == 0
           own_session_dir == NoDir
       IN  meta' = IF own_print_active /\ own_session_dir \in DOMAIN meta
                      THEN [meta EXCEPT ![own_session_dir] =
                               [@ EXCEPT !.end_time = TRUE,
                                         !.total_images = own_capture_counter]]
                      ELSE meta
    /\ UNCHANGED <<cfg, gpio_ok, loopv, sharedv, clockv, pc, localv, mainv,
                   countv, histv, fvars>>

NextCompile ==
    \/ Next
    \/ Compile

SpecCompile ==
    Init /\ [][NextCompile]_vars


(* ======================== session coordination ========================= *)

Abs(x) ==
    IF x < 0 THEN -x ELSE x

(* a returned upload call that made an HTTP transfer *)
Attempted(e) ==
    e.res \in {"200", "non200", "error"}

(* C1: between two session ends the session-creation action runs at most  *)
(* once.  print_active is cleared only by a session end, so a creation     *)
(* that finds it already set is a second creation with no end in between.  *)
C1_OneCreationPerSession ==
    [][\A t \in Workers : StartActive(t) => ~print_active]_vars

(* C2: capture_counter never decreases while a session is active; it is    *)
(* set back to zero only in an Idle -> Active transition.                  *)
C2_CounterMonotonic ==
    [][capture_counter' < capture_counter
          => (~print_active /\ print_active')]_vars

(* C3: the captures of one session get pairwise distinct sequence numbers. *)
C3_DistinctNumbers ==
    \A i, j \in 1..Len(seqs) : i # j => seqs[i] # seqs[j]

(* C4: a failed capture leaves capture_counter at the value it had before  *)
(* the capture request, and leaves print_active and current_session_dir.   *)
C4_FailureKeepsCounter ==
    [][\A t \in Workers : CaptureRunFail(t) =>
          /\ capture_counter' = tmp[t]
          /\ print_active' = print_active
          /\ current_session_dir' = current_session_dir]_vars

(* C5: capture_counter is incremented only while print_active is true.     *)
C5_IncrementOnlyActive ==
    [][capture_counter' > capture_counter => print_active]_vars

(* C6: every recorded successful upload moves last_upload_time by at       *)
(* least the upload interval.                                              *)
C6_UploadsSpaced ==
    [][oks' = oks + 1 =>
          Abs(last_upload_time' - last_upload_time) >= UploadInterval]_vars

(* C7: last_upload_time changes only in the step in which an upload is     *)
(* confirmed with HTTP 200 (so a skip, a missing token, a non-200 response *)
(* and an error leave it), and a call makes at most one HTTP transfer.     *)
C7_WindowOnlyOnSuccess ==
    [][/\ (last_upload_time' # last_upload_time =>
              /\ oks' = oks + 1
              /\ prev'.res = "200"
              /\ last_upload_time' = prev'.at)
       /\ (calls' = calls + 1 /\ prev'.res # "200" =>
              last_upload_time' = last_upload_time)
       /\ puts' - puts <= calls' - calls
       /\ puts' - puts <= 1]_vars

(* C7 witness: after a confirmed upload a later call got a non-200 answer  *)
(* and the window still is the one of the confirmed upload.                *)
C7_Witness ==
    /\ oks = 1
    /\ calls = 2
    /\ puts = 2
    /\ prev.res = "non200"
    /\ last_upload_time # 0
    /\ last_upload_time # prev.at

(* C8 as stated: with the interval at 10 s and a token configured, of two  *)
(* captures that complete 2 s apart exactly one makes an upload attempt.   *)
C8_OneAttemptPerPair ==
    [][(/\ cfg.token_ok
        /\ calls >= 1
        /\ calls' = calls + 1
        /\ Abs(prev'.at - prev.at) = 2)
          => (Attempted(prev') # Attempted(prev))]_vars

(* C8 amended: with the interval at 10 s, a capture that completes 2 s     *)
(* after the time recorded for the last confirmed upload makes no upload   *)
(* attempt: its call is a throttled skip.                                  *)
C8_SkipAfterConfirmed ==
    [][\A t \in Workers :
          (/\ pc[t] = "u_check"
           /\ pc'[t] # "u_check"
           /\ oks >= 1
           /\ now - last_upload_time = 2)
             => /\ puts' = puts
                /\ calls' = calls + 1
                /\ prev'.res = "skip"
                /\ last_upload_time' = last_upload_time]_vars

(* C8 witness: one confirmed upload, and the capture 2 s later skipped.    *)
C8_Witness ==
    /\ oks = 1
    /\ puts = 1
    /\ calls = 2
    /\ prev.res = "skip"
    /\ prev.at = last_upload_time + 2

(* C9: the captures of a session are numbered 1, 2, ..., k in order, and   *)
(* once the session is ended and no capture is running its metadata        *)
(* reports total_images = k.                                               *)
C9_NumberedInOrder ==
    /\ seqs = [i \in 1..Len(seqs) |-> i]
    /\ (/\ ~print_active
        /\ \A t \in Workers : pc[t] \in {"idle", "t_off", "t_loop", "t_done"}
        /\ current_session_dir \in DOMAIN meta
        /\ meta[current_session_dir].end_time)
          => meta[current_session_dir].total_images = Len(seqs)


(* C12: with interval capture gated on an active session and no session    *)
(* active, a wake of the periodic worker is a no-op: the iteration goes     *)
(* back to sleep without a capture, and no session is created, no file     *)
(* written, no upload made and no shared attribute changed.                *)
C12_GatedWakeNoOp ==
    [][(/\ pc["time"] = "t_gate"
        /\ pc'["time"] # "t_gate"
        /\ cfg.only_during_print
        /\ ~print_active)
          => /\ pc'["time"] = "t_loop"
             /\ print_active' = print_active
             /\ capture_counter' = capture_counter
             /\ current_session_dir' = current_session_dir
             /\ last_upload_time' = last_upload_time
             /\ meta' = meta
             /\ histv' = histv]_vars

(* the only wake was suppressed: no trigger ever came, so no session was   *)
(* ever created, and the worker is asleep again                            *)
C12_Witness ==
    /\ cfg.time_enabled
    /\ cfg.only_during_print
    /\ running
    /\ wakes = 1
    /\ triggers = 0
    /\ pc["time"] = "t_loop"
    /\ ~print_active
    /\ current_session_dir = NoDir

(* C13: with layer mode disabled no capture request creates a session:     *)
(* print_active stays false and no session directory is allocated.         *)
C13_NoSessionWithoutLayerMode ==
    ~cfg.layer_enabled => (~print_active /\ current_session_dir = NoDir)

(* C15: the periodic worker is not ended by a failure in an iteration: a   *)
(* failed capture and a failed upload both bring it back to the head of    *)
(* its loop, and it leaves the loop only with running false.               *)
C15_WorkerSurvivesFailure ==
    [][/\ (pc'["time"] = "t_done" => ~running')
       /\ (CaptureRunFail("time") => pc'["time"] = "t_loop")
       /\ (/\ pc["time"] = "u_put"
           /\ pc'["time"] # "u_put"
           /\ prev'.res \in {"non200", "error"})
             => pc'["time"] = "t_loop"]_vars

(* the worker's upload raised, no trigger ever came, and the worker is at  *)
(* the head of its loop with the service running                           *)
C15_Witness ==
    /\ running
    /\ triggers = 0
    /\ prev.res = "error"
    /\ pc["time"] = "t_loop"

(* C16: shutdown always completes: a stop that has begun sets running      *)
(* false for the worker's next wake and, whatever the worker does, goes on *)
(* to release the GPIO watcher and to return.                              *)
C16_ShutdownCompletes ==
    /\ [](stops >= 1 => ~running)
    /\ (stops >= 1) ~> (mpc = "m_exit" /\ ~button_open)

(* stop() has returned for good while the worker is still inside a capture *)
C16_Witness ==
    /\ mpc = "m_exit"
    /\ ~button_open
    /\ stops = 2
    /\ pc["time"] \in {"c_read", "c_write", "c_name", "c_run"}

(* C21: a failed set-up of the edge watcher is not fatal: the service is   *)
(* constructed and can be started, no edge trigger is ever delivered, and  *)
(* interval capture stays available: with time mode enabled an iteration   *)
(* of the periodic worker goes on to a capture.                            *)
C21_DegradedStillCaptures ==
    [][~gpio_ok =>
          /\ triggers' = 0
          /\ (mpc = "m_new" /\ mpc' # "m_new") =>
                 /\ running'
                 /\ cfg.time_enabled => pc'["time"] = "t_loop"
          /\ (pc["time"] = "t_gate" /\ pc'["time"] # "t_gate") =>
                 pc'["time"] = "c_check"]_vars

(* C22: the resource check of the main loop never halts the service:       *)
(* whatever it reads and however it fails, the main loop goes on, running  *)
(* stays true and stop() is not called.                                    *)
C22_CheckNeverHalts ==
    [][checks' = checks + 1 =>
          /\ mpc' = "m_loop"
          /\ running'
          /\ stops' = stops]_vars

(* the directory current_session_dir names is that of a session whose      *)
(* metadata has been finalized                                             *)
DirClosed ==
    /\ current_session_dir \in DOMAIN meta
    /\ meta[current_session_dir].end_time

(* C24: a capture made while a session is active writes into that          *)
(* session's directory: when a capture forms its output path with          *)
(* print_active true (and not inside the session end, which finalizes the  *)
(* metadata before it clears the flag), current_session_dir is not the     *)
(* directory of a closed session.                                          *)
C24_CaptureInOwnSession ==
    [][\A t \in Workers :
          (/\ pc[t] = "c_name"
           /\ pc'[t] = "c_run"
           /\ print_active
           /\ mpc # "e_flag")
             => ~DirClosed]_vars

(* a call of stop() has returned: the one of the signal handler, after     *)
(* which the finally clause begins the second, or the last one             *)
StopReturned ==
    stops = 2 \/ mpc = "m_exit"

(* C25: once stop() has returned the service is quiescent: print_active is *)
(* false and stays false, no session directory is allocated and            *)
(* capture_counter does not change any more.                               *)
C25_QuiescentAfterStop ==
    [][StopReturned =>
          /\ ~print_active'
          /\ capture_counter' = capture_counter
          /\ current_session_dir' = current_session_dir]_vars

(* C27: stop() is idempotent on the session state: the steps of the second *)
(* call, the one of the finally clause after the signal handler's, change  *)
(* neither print_active nor capture_counter nor the session metadata.      *)
C27_SecondStopNoOp ==
    [][(stops = 2 /\ mpc' # mpc) =>
          /\ print_active' = print_active
          /\ capture_counter' = capture_counter
          /\ meta' = meta]_vars

(* C14: a run of the external compile command while the service has an     *)
(* active session ends that session: the service is Idle afterwards and    *)
(* the session's metadata carries end_time and total_images.               *)
C14_CompileEndsSession ==
    [][(compiles' = compiles + 1 /\ print_active)
          => /\ ~print_active'
             /\ current_session_dir \in DOMAIN meta'
             /\ meta'[current_session_dir].end_time
             /\ meta'[current_session_dir].total_images # NoMeta]_vars

(* ============================ MJPEG framer ============================= *)
(* StreamingHandler.stream_video for one viewer connection: the camera     *)
(* process writes the bytes of stdout, the handler cuts them into frames   *)
(* and writes each frame to the viewer.                                    *)

SOI ==
    <<255, 216>>
EOI ==
    <<255, 217>>

(* frame[-2:] == b'\xff\xd9' *)
EndsWithEOI(f) ==
    Len(f) >= 2 /\ SubSeq(f, Len(f) - 1, Len(f)) = EOI

(* bytes that noise in front of the first frame is made of *)
NoiseBytes ==
    {0, 216, 255}

(* a JPEG buffer of n bytes: start marker, a tag byte, filler, end marker  *)
Jpeg(tag, n) ==
    SOI \o <<tag>> \o [i \in 1..(n - 5) |-> 0] \o EOI

(* well-formed buffers of at least the minimum size *)
JpegBuffers ==
    {Jpeg(tag, n) : tag \in {1, 2}, n \in {MinFrameSize, MinFrameSize + 1}}

(* a marker-delimited buffer below the minimum size *)
ShortBuffers ==
    {Jpeg(1, 5)}

WellFormed(f) ==
    /\ Len(f) >= MinFrameSize
    /\ SubSeq(f, 1, 2) = SOI
    /\ EndsWithEOI(f)

HasStartMarker(s) ==
    \E i \in 1..(Len(s) - 1) : s[i] = 255 /\ s[i + 1] = 216

Noise ==
    {s \in UNION {[1..n -> NoiseBytes] : n \in 0..MaxNoise} :
        ~HasStartMarker(s)}

(* the first n bytes of a JPEG buffer whose end marker never arrives *)
Partial(tag, n) ==
    SOI \o <<tag>> \o [i \in 1..(n - 3) |-> 0]

(* cut-off buffers below, at and above the minimum size *)
PartialBuffers ==
    {Partial(tag, n) : tag \in {1, 2},
                       n \in {3, MinFrameSize - 1, MinFrameSize,
                              MinFrameSize + 1}}

(* file.read(n) on the pipe: n bytes, or what is left at end of stream *)
Take(s, n) ==
    SubSeq(s, 1, IF Len(s) < n THEN Len(s) ELSE n)

Drop(s, n) ==
    SubSeq(s, (IF Len(s) < n THEN Len(s) ELSE n) + 1, Len(s))

(* read(n) on the pipe comes back when n bytes are there or when the       *)
(* camera process has closed its end                                       *)
CanRead(n) ==
    Len(stdout) >= n \/ cam # "alive"

(* do_GET has sent the stream headers to viewer v and entered stream_video *)
InitHandling(v) ==
    /\ srv = "serving"
    /\ cam = "none"
    /\ leaked = 0
    /\ handling = v
    /\ conns = << >>
    /\ peer = [w \in Viewers |-> IF w = v THEN "open" ELSE "none"]
    /\ req = [w \in Viewers |-> IF w = v THEN "/stream" ELSE "none"]
    /\ resp = [w \in Viewers |-> IF w = v THEN "stream" ELSE "none"]
    /\ out = [w \in Viewers |-> << >>]

(* the handler is entered; the camera will produce noise, then two         *)
(* marker-delimited buffers                                                *)
InitFramer ==
    /\ cfg = DefaultConfig
    /\ InitService
    /\ InitHandling(1)
    /\ in_noise \in Noise
    /\ in_frames \in {<<a, b>> : a \in JpegBuffers \cup ShortBuffers,
                                b \in JpegBuffers \cup ShortBuffers}
    /\ stdout = in_noise \o in_frames[1] \o in_frames[2]
    /\ data = << >>
    /\ frame = << >>
    /\ wfile = << >>
    /\ fpc = "idle"

(* the handler is entered; the camera will produce the beginning of one    *)
(* JPEG buffer and nothing more                                            *)
InitTruncated ==
    /\ cfg = DefaultConfig
    /\ InitService
    /\ InitHandling(1)
    /\ in_noise = << >>
    /\ in_frames \in {<<a>> : a \in PartialBuffers}
    /\ stdout = in_frames[1]
    /\ data = << >>
    /\ frame = << >>
    /\ wfile = << >>
    /\ fpc = "idle"

(* process = subprocess.Popen(cmd, stdout=PIPE, ...) *)
Popen ==
    /\ handling # NoViewer
    /\ fpc = "idle"
    /\ fpc' = "scan"
    /\ cam' = "alive"
    /\ UNCHANGED <<svars, stdout, data, frame, wfile, in_noise, in_frames,
                   leaked, srv, handling, conns, peer, req, resp, out>>

(* the camera process ends: its end of the pipe is closed, what it wrote   *)
(* can still be read                                                       *)
CameraExit ==
    /\ cam = "alive"
    /\ cam' = "exited"
    /\ UNCHANGED <<svars, stdout, data, frame, wfile, fpc, in_noise,
                   in_frames, leaked, srv, handling, conns, peer, req,
                   resp, out>>

(* data = process.stdout.read(2): end of stream, no start marker, or the   *)
(* start of a frame                                                        *)
ReadStart ==
    /\ fpc = "scan"
    /\ CanRead(2)
    /\ data' = Take(stdout, 2)
    /\ stdout' = Drop(stdout, 2)
    /\ IF data' = << >>
          THEN /\ fpc' = "term"
               /\ frame' = frame
          ELSE IF data' # SOI
          THEN /\ fpc' = "scan"
               /\ frame' = frame
          ELSE /\ fpc' = "body"
               /\ frame' = SOI
    /\ UNCHANGED <<svars, wfile, in_noise, in_frames, srvv>>

(* byte = process.stdout.read(1); frame += byte, until the end marker or   *)
(* the end of the stream                                                   *)
ReadByte ==
    /\ fpc = "body"
    /\ CanRead(1)
    /\ stdout' = Drop(stdout, 1)
    /\ IF Take(stdout, 1) = << >>
          THEN /\ frame' = frame
               /\ fpc' = "check"
          ELSE /\ frame' = frame \o Take(stdout, 1)
               /\ fpc' = IF EndsWithEOI(frame') THEN "check" ELSE "body"
    /\ UNCHANGED <<svars, data, wfile, in_noise, in_frames, srvv>>

(* if not frame or len(frame) < 100: continue *)
DropShort ==
    /\ fpc = "check"
    /\ (frame = << >> \/ Len(frame) < MinFrameSize)
    /\ fpc' = "scan"
    /\ UNCHANGED <<svars, stdout, data, frame, wfile, in_noise, in_frames,
                   srvv>>

(* one part of a multipart chunk as it goes over the wire *)
Part(kind, n, body) ==
    [kind |-> kind, n |-> n, body |-> body]

(* a plausible slip: the length header counts the closing line separator   *)
ChunkPadded(f) ==
    <<Part("boundary", 0, << >>), Part("type", 0, << >>),
      Part("length", Len(f) + 2, << >>), Part("blank", 0, << >>),
      Part("frame", 0, f), Part("crlf", 0, << >>)>>

(* --FRAME, Content-Type: image/jpeg, Content-Length: len(frame), the      *)
(* blank line, the frame, the closing line separator                       *)
Chunk(f) ==
    <<Part("boundary", 0, << >>), Part("type", 0, << >>),
      Part("length", Len(f), << >>), Part("blank", 0, << >>),
      Part("frame", 0, f), Part("crlf", 0, << >>)>>

(* the parts that are out when the first, second, ... fifth                *)
(* self.wfile.write of a chunk raises: the third write carries the length  *)
(* header and the blank line                                               *)
WriteEnds ==
    <<0, 1, 2, 4, 5>>

(* how a chunk's writes can end: an open connection takes them all; when   *)
(* the peer is gone they may still all be taken by the socket buffer, or   *)
(* one raises BrokenPipeError / ConnectionResetError ("pipe") or another   *)
(* OSError such as a timeout ("other")                                     *)
WriteOutcomes(v) ==
    IF peer[v] = "open" THEN {"ok"} ELSE {"ok", "pipe", "other"}

(* a plausible slip: the write failure leaves the handler as an exception  *)
WriteFailedRaises(e) ==
    "raised"

(* except (BrokenPipeError, ConnectionResetError): break, on to            *)
(* process.terminate(); any other exception is caught by the outer         *)
(* except Exception, past the terminate                                    *)
WriteFailed(e) ==
    IF e = "pipe" THEN "term" ELSE "done"

(* the histories wfile and out take what is written while they have room *)
Logged(log, written) ==
    IF Len(wfile) < MaxLog THEN log \o written ELSE log

(* the multipart chunk with the frame is written to the viewer *)
SendFrame ==
    /\ fpc = "check"
    /\ ~(frame = << >> \/ Len(frame) < MinFrameSize)
    /\ \E e \in WriteOutcomes(handling) :
          IF e = "ok"
             THEN /\ out' = [out EXCEPT ![handling] = Logged(@, Chunk(frame))]
                  /\ wfile' = Logged(wfile, <<frame>>)
                  /\ fpc' = "scan"
             ELSE /\ \E k \in 1..Len(WriteEnds) :
                        out' = [out EXCEPT ![handling] =
                                   Logged(@, SubSeq(Chunk(frame), 1,
                                                    WriteEnds[k]))]
                  /\ wfile' = wfile
                  /\ fpc' = WriteFailed(e)
    /\ UNCHANGED <<svars, stdout, data, frame, in_noise, in_frames, cam,
                   leaked, srv, handling, conns, peer, req, resp>>

(* process.terminate(); process.wait() *)
Terminate ==
    /\ fpc = "term"
    /\ fpc' = "done"
    /\ cam' = "none"
    /\ UNCHANGED <<svars, stdout, data, frame, wfile, in_noise, in_frames,
                   leaked, srv, handling, conns, peer, req, resp, out>>

NextFramer ==
    \/ Popen
    \/ CameraExit
    \/ ReadStart
    \/ ReadByte
    \/ DropShort
    \/ SendFrame
    \/ Terminate

SpecFramer ==
    InitFramer /\ [][NextFramer]_vars

SpecTruncated ==
    InitTruncated /\ [][NextFramer]_vars

(* ============================ stream server ============================ *)
(* StreamingServer.start runs http.server.HTTPServer: one thread accepts a *)
(* connection, runs StreamingHandler.do_GET for it to the end, and only    *)
(* then accepts the next one.                                              *)

(* the paths a viewer asks for: the viewer page, the stream, another one *)
Paths ==
    {"/", "/stream", "/x"}

(* what a camera process writes: a frame above the minimum size and a      *)
(* marker-delimited buffer below it                                        *)
CameraBuffers ==
    {Jpeg(1, MinFrameSize + 1)} \cup ShortBuffers

InitServer ==
    /\ cfg = DefaultConfig
    /\ InitService
    /\ InitFramerIdle

(* self.server = HTTPServer(('0.0.0.0', STREAM_PORT), StreamingHandler);   *)
(* self.server.serve_forever()                                             *)
ServeForever ==
    /\ srv = "new"
    /\ srv' = "serving"
    /\ UNCHANGED <<svars, stdout, data, frame, wfile, fpc, in_noise,
                   in_frames, cam, leaked, handling, conns, peer, req,
                   resp, out>>

(* a viewer connects and sends GET p: the listening socket queues it *)
Connect(v, p) ==
    /\ srv = "serving"
    /\ peer[v] = "none"
    /\ peer' = [peer EXCEPT ![v] = "open"]
    /\ req' = [req EXCEPT ![v] = p]
    /\ conns' = Append(conns, v)
    /\ UNCHANGED <<svars, stdout, data, frame, wfile, fpc, in_noise,
                   in_frames, cam, leaked, srv, handling, resp, out>>

(* a viewer closes its end, or its network goes away *)
Disconnect(v) ==
    /\ peer[v] = "open"
    /\ peer' = [peer EXCEPT ![v] = "gone"]
    /\ UNCHANGED <<svars, stdout, data, frame, wfile, fpc, in_noise,
                   in_frames, cam, leaked, srv, handling, conns, req,
                   resp, out>>

(* serve_forever takes the next connection and runs do_GET: the viewer     *)
(* page and the 404 are answered at once, for the stream the headers are   *)
(* sent and stream_video is entered                                        *)
Accept ==
    /\ srv = "serving"
    /\ handling = NoViewer
    /\ conns # << >>
    /\ conns' = Tail(conns)
    /\ LET v == Head(conns)
       IN  IF req[v] = "/"
              THEN /\ resp' = [resp EXCEPT ![v] = "page"]
                   /\ handling' = handling
           ELSE IF req[v] = "/stream"
              THEN /\ resp' = [resp EXCEPT ![v] = "stream"]
                   /\ handling' = v
              ELSE /\ resp' = [resp EXCEPT ![v] = "404"]
                   /\ handling' = handling
    /\ UNCHANGED <<svars, stdout, data, frame, wfile, fpc, in_noise,
                   in_frames, cam, leaked, srv, peer, req, out>>

(* the camera process (-t 0: it runs until it is stopped) writes its next  *)
(* buffer once the pipe has been read empty                                *)
CameraFrame ==
    /\ cam = "alive"
    /\ stdout = << >>
    /\ \E b \in CameraBuffers : stdout' = b
    /\ UNCHANGED <<svars, data, frame, wfile, fpc, in_noise, in_frames, cam,
                   leaked, srv, handling, conns, peer, req, resp, out>>

(* stream_video and do_GET return: the handler's locals are dropped, the   *)
(* pipe with them; a camera process that was not terminated goes on        *)
(* running without an owner                                                *)
Finish ==
    /\ handling # NoViewer
    /\ fpc = "done"
    /\ leaked' = IF cam = "alive" THEN leaked + 1 ELSE leaked
    /\ cam' = "none"
    /\ handling' = NoViewer
    /\ fpc' = "idle"
    /\ stdout' = << >>
    /\ data' = << >>
    /\ frame' = << >>
    /\ wfile' = << >>
    /\ UNCHANGED <<svars, in_noise, in_frames, srv, conns, peer, req, resp,
                   out>>

(* an ownerless camera process writes into the closed pipe and is killed   *)
(* by SIGPIPE                                                              *)
Sigpipe ==
    /\ leaked > 0
    /\ leaked' = leaked - 1
    /\ UNCHANGED <<svars, stdout, data, frame, wfile, fpc, in_noise,
                   in_frames, cam, srv, handling, conns, peer, req,
                   resp, out>>

(* the steps of the server thread and of the camera it is reading from *)
ServerStep ==
    \/ Accept
    \/ Popen
    \/ CameraFrame
    \/ ReadStart
    \/ ReadByte
    \/ DropShort
    \/ SendFrame
    \/ Terminate
    \/ Finish

NextServer ==
    \/ ServeForever
    \/ \E v \in Viewers, p \in Paths : Connect(v, p)
    \/ \E v \in Viewers : Disconnect(v)
    \/ CameraExit
    \/ Sigpipe
    \/ ServerStep

SpecServer ==
    InitServer /\ [][NextServer]_vars

(* the server thread and a running camera are scheduled; nothing is        *)
(* assumed of the viewers, nor of a camera process ending by itself        *)
SpecServerFair ==
    /\ InitServer
    /\ [][NextServer]_vars
    /\ WF_vars(ServeForever)
    /\ WF_vars(ServerStep)

(* C10: noise without a start marker followed by two well-formed JPEG      *)
(* buffers yields exactly those two buffers as frames, in order.           *)
C10_TwoFramesOut ==
    (/\ fpc = "done"
     /\ \A i \in 1..Len(in_frames) : WellFormed(in_frames[i]))
       => wfile = in_frames

(* C11: a start marker followed by the end of the stream, with no end      *)
(* marker, yields no frame: every buffer written to a viewer ends in the   *)
(* end marker.                                                             *)
C11_NoTruncatedFrame ==
    \A i \in 1..Len(wfile) : EndsWithEOI(wfile[i])

(* a stream viewer whose request is still in the queue *)
Waiting(v) ==
    /\ peer[v] = "open"
    /\ req[v] = "/stream"
    /\ \E i \in 1..Len(conns) : conns[i] = v

(* a frame has been written to viewer v *)
Served(v) ==
    \E i \in 1..Len(out[v]) : out[v][i].kind = "frame"

(* camera processes running *)
Running ==
    (IF cam = "alive" THEN 1 ELSE 0) + leaked

(* the writes of one chunk, in the order of the multipart format *)
PartOrder ==
    <<"boundary", "type", "length", "blank", "frame", "crlf">>

(* C17: viewers are served at the same time: a viewer that asks for the    *)
(* stream while another viewer is being sent frames gets its own request   *)
(* handled while that other viewer stays connected, unless it leaves       *)
(* first.                                                                  *)
C17_SecondViewerServed ==
    \A v \in Viewers : \A w \in Viewers \ {v} :
        (Waiting(v) /\ handling = w /\ peer[w] = "open" /\ Served(w))
           ~> \/ handling = v
              \/ Served(v)
              \/ peer[v] # "open"
              \/ peer[w] # "open"

(* C18: at most one camera process is running at any time, however many    *)
(* stream connections have been accepted.                                  *)
C18_OneCameraProcess ==
    Running <= 1

(* C19: a write failure on a viewer connection ends that connection's      *)
(* streaming loop and nothing else: the handler goes on to its end, no     *)
(* exception leaves it, the server stays in service, and the queue and     *)
(* the other viewers' connections and responses are untouched.             *)
C19_WriteFailureIsolated ==
    [][(fpc = "check" /\ fpc' \notin {"check", "scan"})
          => /\ fpc' \in {"term", "done"}
             /\ srv' = "serving"
             /\ conns' = conns
             /\ \A w \in Viewers \ {handling} :
                   /\ out'[w] = out[w]
                   /\ resp'[w] = resp[w]
                   /\ peer'[w] = peer[w]]_vars

(* one viewer's stream broke off inside a chunk and the other viewer,      *)
(* accepted after it, has been sent a frame                                *)
C19_Witness ==
    \E v \in Viewers, w \in Viewers :
        /\ v # w
        /\ Len(out[v]) % Len(PartOrder) # 0
        /\ handling = w
        /\ Served(w)

(* C20: the parts of every chunk go out in the order boundary marker,      *)
(* Content-Type, Content-Length, blank line, frame bytes, line separator,  *)
(* and the Content-Length is the number of frame bytes written.            *)
C20_ChunkLayout ==
    \A v \in Viewers : \A i \in 1..Len(out[v]) :
        /\ out[v][i].kind = PartOrder[((i - 1) % Len(PartOrder)) + 1]
        /\ out[v][i].kind = "frame" => out[v][i - 2].n = Len(out[v][i].body)

(* a viewer has been sent a whole chunk *)
C20_Witness ==
    \E v \in Viewers : Len(out[v]) >= Len(PartOrder) /\ Served(v)

(* C26: when the handler of a stream connection ends, for whatever reason, *)
(* the camera process it launched has been terminated.                     *)
C26_CameraEndsWithHandler ==
    [][(handling # NoViewer /\ handling' = NoViewer) => cam # "alive"]_vars

====
